---- MODULE Spec2Model ----
(***************************************************************************)
(* GiftSubTracker: webhook authentication (twitch.py), the ingestion       *)
(* handler and its HTTP routes (webhook_handler.py, main.py), the two      *)
(* ledger adapters (gsheets.py, googlesheets.py) and the tenant registry   *)
(* (googlesheets.SheetManager).                                            *)
(*                                                                         *)
(* A spreadsheet is a sequence of rows, a row a sequence of cells; row 1   *)
(* is the header.  Text is a sequence of characters so that concatenation  *)
(* is real concatenation.  Python's None is the row number 0 where a row   *)
(* number is expected.                                                     *)
(***************************************************************************)
EXTENDS Integers, Sequences, FiniteSets, TLC

\* ------------------------------------------------------------------ bounds
MaxLen == 2         \* longest header value / body text of an envelope
MaxTotal == 1       \* largest event.total carried by one notification
MaxSubs == 3        \* cap on a stored gifted_subs
MaxRewards == 1     \* cap on a stored rewards_given
MaxRows == 3        \* cap on the rows of a sheet (header included)
MaxLedgers == 3     \* cap on the spreadsheets Drive creates
MaxRequests == 3    \* cap on the ledger requests the concurrent threads serve

\* ------------------------------------------------------------------ domains
Char == {"a", "b"}
Secrets == {"k1", "k2"}
UserIds == {"42", "43"}
UserNames == {"ann", "bob"}
\* the (user_id, user_name) pairs requests carry: user 42 under two names
Gifters == {<<"42", "ann">>, <<"42", "bob">>, <<"43", "bob">>}
Challenges == {"abc123"}
Tenants == {"t0", "t1", "t2"}
Workers == {1, 2}
LedgerNames == <<"L1", "L2", "L3", "L4", "L5", "L6", "L7", "L8", "L9">>
Letters == <<"A", "B", "C", "D", "E", "F", "G", "H", "I", "J">>
Digits == <<"0", "1", "2", "3", "4", "5", "6", "7", "8", "9">>

Min(S) == CHOOSE x \in S : \A y \in S : x <= y
Max(a, b) == IF a >= b THEN a ELSE b

Text(n) == UNION {[1..k -> Char] : k \in 0..n}

VARIABLES
    secret,          \* twitch.credentials['secret']
    sig_req,         \* the request last given to is_valid_notification
    sig_case,        \* how sig_req was made: "signed" or the field tampered with
    verdict,         \* what is_valid_notification returned for sig_req
    sig_raised,      \* the exception is_valid_notification raised for sig_req, "" when none
    sig_prev,        \* the signed envelope the last changed envelope was made from
    ledger,          \* the rows of the sheet behind main.py's gsheets `sheet`
    emitted,         \* the update_gifters events sent to the transport while http was served
    http,            \* the last request served by a route of main.py, and its effects
    th,              \* per request thread: where its read-modify-write of the ledger stands
    last_upsert,     \* the last append_or_update_row call made directly on an adapter
    sheets,          \* spreadsheet id -> rows, for the spreadsheets behind StreamerSheets
    reference,       \* the rows of the reference spreadsheet
    drive,           \* the tenant named by each spreadsheet Drive created, in order
    streamer_sheets, \* SheetManager.streamer_sheets: user_id -> its StreamerSheet's id
    pc,              \* where each worker is inside get_streamer_sheet
    call,            \* each worker's current or last get_streamer_sheet call
    first,           \* per tenant, the ledger the first finished call registered
    tw,              \* twitch_handler.twitch: user_access_token, broadcaster_id
    main_token,      \* twitch.user_access_token of main.py's own Twitch instance
    session,         \* the Flask session: session['access_token'], "None" when not set
    consumed,        \* the authorization codes the platform has exchanged
    subs,            \* the broadcaster ids of the subscriptions the platform holds
    auth,            \* the last operation of the authorization flow, and its effects
    hs               \* per request thread: where its handle_verification call stands

sigVars == <<sig_req, sig_case, verdict, sig_raised, sig_prev>>
appVars == <<ledger, emitted, http, th>>
regVars == <<reference, drive, streamer_sheets, pc, call, first>>
authVars == <<tw, main_token, session, consumed, subs, auth, hs>>
vars == <<secret, sig_req, sig_case, verdict, sig_raised, sig_prev, ledger, emitted, http, last_upsert,
          sheets, reference, drive, streamer_sheets, pc, call, first,
          tw, main_token, session, consumed, subs, auth, hs, th>>

\* ------------------------------------------------- twitch.py: the verifier
HeaderId == "Twitch-Eventsub-Message-Id"
HeaderTimestamp == "Twitch-Eventsub-Message-Timestamp"
HeaderSignature == "Twitch-Eventsub-Message-Signature"

\* hmac.new(key, msg, sha256).hexdigest(): collision-free, so an injective
\* encoding of (key, msg)
HexDigest(key, msg) == <<key>> \o msg

\* what the upstream platform sends as the signature of an envelope
Sign(key, message_id, timestamp, body) ==
    <<"sha256=">> \o HexDigest(key, message_id \o timestamp \o body)

\* a request as the verifier sees it: headers (a dict) and the raw body text
MkRequest(id, ts, sig, data) ==
    [headers |-> (HeaderId :> id) @@ (HeaderTimestamp :> ts) @@ (HeaderSignature :> sig),
     data |-> data]

\* request.headers.get(name): Python's None, here NoHeader, when the header is missing
NoHeader == <<"None">>

HeaderGet(request, name) ==
    IF name \in DOMAIN request.headers THEN request.headers[name] ELSE NoHeader

\* how a call ends: it raises, or it returns a value
Raised(exception) == [raised |-> exception, ret |-> <<>>]
Returned(value) == [raised |-> "", ret |-> value]

ComputeSignature_NoTimestamp(key, request) ==
    LET message_id == HeaderGet(request, HeaderId)
    IN IF message_id = NoHeader
       THEN Raised("TypeError")
       ELSE Returned(<<"sha256=">> \o HexDigest(key, message_id \o request.data))

\* message_id + timestamp + body raises TypeError when one of them is None
ComputeSignature(key, request) ==
    LET message_id == HeaderGet(request, HeaderId)
        timestamp == HeaderGet(request, HeaderTimestamp)
        body == request.data
    IN IF message_id = NoHeader \/ timestamp = NoHeader
       THEN Raised("TypeError")
       ELSE LET message == message_id \o timestamp \o body
            IN Returned(<<"sha256=">> \o HexDigest(key, message))

IsValidNotification_SchemeOnly(key, request) ==
    LET provided_signature == HeaderGet(request, HeaderSignature)
        computed_signature == ComputeSignature(key, request)
    IN IF computed_signature.raised # ""
       THEN [raised |-> computed_signature.raised, ret |-> FALSE]
       ELSE [raised |-> "", ret |-> (provided_signature # NoHeader
                                     /\ provided_signature[1] = computed_signature.ret[1])]

IsValidNotification(key, request) ==
    LET provided_signature == HeaderGet(request, HeaderSignature)
        computed_signature == ComputeSignature(key, request)
    IN IF computed_signature.raised # ""
       THEN [raised |-> computed_signature.raised, ret |-> FALSE]
       ELSE [raised |-> "", ret |-> (provided_signature = computed_signature.ret)]

\* ------------------------------------------------------ payloads (JSON)
\* a dict is the set of its keys plus the values of the keys it has
NoEvent == [keys |-> {}, user_id |-> "", user_name |-> "", total |-> 0]

FullEvents ==
    {[keys |-> {"user_id", "user_name", "total"}, user_id |-> g[1], user_name |-> g[2], total |-> t] :
        g \in Gifters, t \in 1..MaxTotal}

PartialEvents ==
    {[keys |-> {"user_id", "user_name"}, user_id |-> "42", user_name |-> "ann", total |-> 0],
     [keys |-> {"user_name", "total"}, user_id |-> "", user_name |-> "ann", total |-> 1],
     NoEvent}

Payloads ==
    {[keys |-> {"challenge"}, challenge |-> c, event |-> NoEvent] : c \in Challenges}
    \cup {[keys |-> {"challenge", "event"}, challenge |-> c, event |-> e] :
            c \in Challenges, e \in {f \in FullEvents : f.user_id = "42" /\ f.user_name = "ann"}}
    \cup {[keys |-> {"event"}, challenge |-> "", event |-> e] : e \in FullEvents \cup PartialEvents}
    \cup {[keys |-> {}, challenge |-> "", event |-> NoEvent]}

IsNotification(data) ==
    /\ "challenge" \notin data.keys
    /\ "event" \in data.keys
    /\ data.event.keys = {"user_id", "user_name", "total"}

\* the body text of a payload (request.get_data of the JSON document)
DumpsEvent(e) ==
    (IF "user_id" \in e.keys THEN <<"user_id", e.user_id>> ELSE <<>>)
    \o (IF "user_name" \in e.keys THEN <<"user_name", e.user_name>> ELSE <<>>)
    \o (IF "total" \in e.keys THEN <<"total", Digits[e.total + 1]>> ELSE <<>>)

Dumps(data) ==
    <<"{">>
    \o (IF "challenge" \in data.keys THEN <<"challenge", data.challenge>> ELSE <<>>)
    \o (IF "event" \in data.keys THEN <<"event", "{">> \o DumpsEvent(data.event) \o <<"}">> ELSE <<>>)
    \o <<"}">>

\* ------------------------------------------- gsheets.py: GoogleSheets
Schema == <<"user_id", "user_name", "gifted_subs", "rewards_given">>

None == 0

\* the first row, header included, whose first cell is the user id
GetUserRow(values, user_id) ==
    LET hits == {i \in 1..Len(values) : values[i][1] = user_id}
    IN IF hits = {} THEN None ELSE Min(hits)

\* one call of append_or_update_row: the sheet afterwards and the API calls made
AppendOrUpdateRow_Overwrite(values, user_id, user_name, gifted_subs, rewards_given) ==
    LET row == GetUserRow(values, user_id)
    IN IF row = None
       THEN [values |-> Append(values, <<user_id, user_name, gifted_subs, rewards_given>>),
             calls |-> <<"get", "append">>]
       ELSE [values |-> [values EXCEPT ![row] = <<user_id, user_name, gifted_subs, rewards_given>>],
             calls |-> <<"get", "get", "update">>]

AppendOrUpdateRow(values, user_id, user_name, gifted_subs, rewards_given) ==
    LET row == GetUserRow(values, user_id)
    IN IF row = None
       THEN [values |-> Append(values, <<user_id, user_name, gifted_subs, rewards_given>>),
             calls |-> <<"get", "append">>]
       ELSE LET row_values == values[row]
                new_subs == gifted_subs + row_values[3]
                new_rewards == rewards_given + row_values[4]
            IN [values |-> [values EXCEPT ![row] = <<user_id, user_name, new_subs, new_rewards>>],
                calls |-> <<"get", "get", "update">>]

\* str(n) / int(text): a number as the decimal text the Sheets API returns
RECURSIVE Str(_)
Str(n) == IF n < 10 THEN <<Digits[n + 1]>> ELSE Str(n \div 10) \o <<Digits[(n % 10) + 1]>>

DigitValue(d) == (CHOOSE i \in 1..10 : Digits[i] = d) - 1

RECURSIVE ParseInt(_)
ParseInt(text) ==
    IF Len(text) = 1 THEN DigitValue(text[1])
    ELSE 10 * ParseInt(SubSeq(text, 1, Len(text) - 1)) + DigitValue(text[Len(text)])

\* values().get(range='Sheet1'): every cell comes back as its formatted text
ValuesGet(values) ==
    [i \in 1..Len(values) |->
        IF i = 1 THEN values[i]
        ELSE <<values[i][1], values[i][2], Str(values[i][3]), Str(values[i][4])>>]

GetAllRows_gsheets_SwapColumns(values) ==
    LET resp == ValuesGet(values)
    IN [i \in 1..(Len(resp) - 1) |->
            [user_id |-> resp[i + 1][1], user_name |-> resp[i + 1][2],
             gifted_subs |-> ParseInt(resp[i + 1][4]), rewards_given |-> ParseInt(resp[i + 1][3])]]

\* gsheets get_all_rows: the rows after the header, zipped with the schema
GetAllRows_gsheets(values) ==
    LET resp == ValuesGet(values)
    IN [i \in 1..(Len(resp) - 1) |->
            [user_id |-> resp[i + 1][1], user_name |-> resp[i + 1][2],
             gifted_subs |-> ParseInt(resp[i + 1][3]), rewards_given |-> ParseInt(resp[i + 1][4])]]

\* ---------------------------------------- googlesheets.py: GoogleSheets
RefSchema == <<"user_id", "sheet_id">>

ColumnIndexToLetter(column_id) == Letters[column_id + 1]

IndexOf(seq, x) == Min({i \in 1..Len(seq) : seq[i] = x})

\* dict(zip(keys, row)): zip stops at the shorter one, a later key wins
DictZip(keys, row) ==
    LET n == IF Len(keys) < Len(row) THEN Len(keys) ELSE Len(row)
    IN [k \in {keys[j] : j \in 1..n} |->
            row[CHOOSE j \in 1..n : keys[j] = k /\ \A l \in 1..n : keys[l] = k => l <= j]]

GetAllRows(values, include_headers) ==
    IF Len(values) = 0
    THEN <<>>
    ELSE LET headers == values[1]
             data == Tail(values)
             rows == [i \in 1..Len(data) |-> DictZip(headers, data[i])]
         IN IF include_headers THEN <<DictZip(headers, headers)>> \o rows ELSE rows

\* list(rows[0].keys()): the header cells in order (they are distinct)
GetHeaders(values) ==
    LET rows == GetAllRows(values, TRUE)
    IN IF Len(rows) > 0 THEN values[1] ELSE <<>>

\* TRUE when _validate_schema returns, FALSE when it raises ValueError
ValidateSchema(values, schema) == GetHeaders(values) = schema

\* the position in get_all_rows() of the first row found, None when none is
FindRowByColValue(values, schema, column_name, value) ==
    LET rows == GetAllRows(values, FALSE)
        col_id == IndexOf(schema, column_name) - 1
        col_letter == ColumnIndexToLetter(col_id)
        hits == {i \in 1..Len(rows) :
                    col_letter \in DOMAIN rows[i] /\ rows[i][col_letter] = value}
    IN IF hits = {} THEN None ELSE Min(hits)

\* values().update of one cell; the backend pads with blank rows and cells
UpdateCell(values, column, row_number, new_value) ==
    LET padded == [i \in 1..Max(Len(values), row_number) |->
                      IF i <= Len(values) THEN values[i] ELSE <<>>]
        old == padded[row_number]
        cells == [j \in 1..Max(Len(old), column) |->
                     IF j = column THEN new_value ELSE IF j <= Len(old) THEN old[j] ELSE ""]
    IN [padded EXCEPT ![row_number] = cells]

\* values().append with the range of row `index`: the row goes to that row when
\* it lies below the data, otherwise right after the data
AppendAt(values, index, row_values) ==
    IF index > Len(values)
    THEN [i \in 1..index |-> IF i <= Len(values) THEN values[i]
                             ELSE IF i = index THEN row_values ELSE <<>>]
    ELSE Append(values, row_values)

\* (`calls` are the requests made to the Sheets backend, in order)
AppendOrUpdateRowDict_Coerce(values, schema, values_dict) ==
    LET key == schema[1]
        value == values_dict[key]
        row == FindRowByColValue(values, schema, key, value)
    IN IF row # None
       THEN [values |-> values, raised |-> "AttributeError", calls |-> <<"values.get">>]
       ELSE LET row_values == [i \in 1..Len(schema) |->
                                  IF schema[i] \in DOMAIN values_dict
                                  THEN values_dict[schema[i]] ELSE 0]
                new_row_index == Len(GetAllRows(values, FALSE)) + 2
            IN [values |-> AppendAt(values, new_row_index, row_values), raised |-> "",
                calls |-> <<"values.get", "values.get", "values.append">>]

AppendOrUpdateRowDict(values, schema, values_dict) ==
    IF DOMAIN values_dict # {schema[i] : i \in 1..Len(schema)}
    THEN [values |-> values, raised |-> "ValueError", calls |-> <<>>]
    ELSE LET key == schema[1]
             value == values_dict[key]
             row == FindRowByColValue(values, schema, key, value)
         IN IF row # None
            THEN \* constants has no UNICODE_A_VALUE: the first cell update raises
                 [values |-> values, raised |-> "AttributeError", calls |-> <<"values.get">>]
            ELSE LET row_values == [i \in 1..Len(schema) |-> values_dict[schema[i]]]
                     new_row_index == Len(GetAllRows(values, FALSE)) + 2
                 IN [values |-> AppendAt(values, new_row_index, row_values), raised |-> "",
                     calls |-> <<"values.get", "values.get", "values.append">>]

\* ---------------------------------------- googlesheets.py: SheetManager
\* _create_streamer_sheet: the reference row the new tenant is written to
NewRowNumber_AfterLastRow(map, ref) == Len(ref) + 1

NewRowNumber(map, ref) == Cardinality(DOMAIN map) + 2

\* files().create: a new, blank spreadsheet
NewSpreadsheetId(files) == LedgerNames[Len(files) + 1]

\* ------------------------------------ webhook_handler.py: WebhookHandler
Event(user_id, user_name, gifted_subs, rewards_given) ==
    [user_id |-> user_id, user_name |-> user_name,
     gifted_subs |-> gifted_subs, rewards_given |-> rewards_given]

Outcome(raised, ret, emits, calls, values) ==
    [raised |-> raised, ret |-> ret, emits |-> emits, calls |-> calls, values |-> values]

\* emit_ok: whether socketio.emit returns; when it raises, the exception leaves
\* handle_webhook
HandleWebhook_EmitFirst(data, values, emit_ok) ==
    IF ~ ("event" \in data.keys /\ data.event.keys = {"user_id", "user_name", "total"})
    THEN IF "challenge" \in data.keys
         THEN Outcome("", data.challenge, <<>>, <<>>, values)
         ELSE Outcome("KeyError", "", <<>>, <<>>, values)
    ELSE IF ~emit_ok
    THEN Outcome("Exception", "", <<>>, <<>>, values)
    ELSE LET e == data.event
             up == AppendOrUpdateRow(values, e.user_id, e.user_name, e.total, 0)
         IN Outcome("", IF "challenge" \in data.keys THEN data.challenge ELSE "OK",
                    <<Event(e.user_id, e.user_name, e.total, 0)>>, up.calls, up.values)

HandleWebhook_RewardOne(data, values, emit_ok) ==
    IF "challenge" \in data.keys
    THEN Outcome("", data.challenge, <<>>, <<>>, values)
    ELSE IF ~ ("event" \in data.keys /\ {"user_id", "user_name", "total"} \subseteq data.event.keys)
    THEN Outcome("KeyError", "", <<>>, <<>>, values)
    ELSE IF ~emit_ok
    THEN Outcome("Exception", "", <<>>, <<>>, values)
    ELSE LET e == data.event
             up == AppendOrUpdateRow(values, e.user_id, e.user_name, e.total, 1)
         IN Outcome("", "OK", <<Event(e.user_id, e.user_name, e.total, 0)>>, up.calls, up.values)

HandleWebhook_DefaultTotal(data, values, emit_ok) ==
    IF "challenge" \in data.keys
    THEN Outcome("", data.challenge, <<>>, <<>>, values)
    ELSE IF ~ ("event" \in data.keys /\ {"user_id", "user_name"} \subseteq data.event.keys)
    THEN Outcome("KeyError", "", <<>>, <<>>, values)
    ELSE IF ~emit_ok
    THEN Outcome("Exception", "", <<>>, <<>>, values)
    ELSE LET e == data.event
             up == AppendOrUpdateRow(values, e.user_id, e.user_name, e.total, 0)
         IN Outcome("", "OK", <<Event(e.user_id, e.user_name, e.total, 0)>>, up.calls, up.values)

HandleWebhook(data, values, emit_ok) ==
    IF "challenge" \in data.keys
    THEN Outcome("", data.challenge, <<>>, <<>>, values)
    ELSE IF ~ ("event" \in data.keys /\ {"user_id", "user_name", "total"} \subseteq data.event.keys)
    THEN Outcome("KeyError", "", <<>>, <<>>, values)
    ELSE IF ~emit_ok
    THEN Outcome("Exception", "", <<>>, <<>>, values)
    ELSE LET e == data.event
             user_id == e.user_id
             user_name == e.user_name
             gifted_subs == e.total
             up == AppendOrUpdateRow(values, user_id, user_name, gifted_subs, 0)
         IN Outcome("", "OK", <<Event(user_id, user_name, gifted_subs, 0)>>, up.calls, up.values)

\* --------------------------------------------------- main.py: the routes
Served(route, request, json, user_id, invoked, out, before) ==
    [route |-> route, request |-> request, json |-> json, user_id |-> user_id,
     invoked |-> invoked, raised |-> out.raised,
     status |-> IF out.raised = "" THEN 200 ELSE 500,
     body |-> IF out.raised = "" THEN out.ret ELSE "Internal Server Error",
     emits |-> out.emits, calls |-> out.calls, before |-> before, after |-> out.values,
     emit_ok |-> TRUE]

NoRequest == MkRequest(<<>>, <<>>, <<>>, <<>>)
NoPayload == [keys |-> {}, challenge |-> "", event |-> NoEvent]

\* POST /webhook
HandleWebhookRoute(request, json, values, emit_ok) ==
    LET data == json
        response == HandleWebhook(data, values, emit_ok)
    IN [Served("webhook", request, json, "", TRUE, response, values) EXCEPT !.emit_ok = emit_ok]

\* POST /reward
IncrementRewards(user_id, values) ==
    LET row == GetUserRow(values, user_id)
    IN IF row # None
       THEN LET v == values[row]
                rewards_given == v[4] + 1
                written == [values EXCEPT ![row] = <<v[1], v[2], v[3], rewards_given>>]
            IN Served("reward", NoRequest, NoPayload, user_id, FALSE,
                      Outcome("", "success", <<>>, <<"get", "get", "update">>, written), values)
       ELSE Served("reward", NoRequest, NoPayload, user_id, FALSE,
                   Outcome("UnboundLocalError", "", <<>>, <<"get">>, values), values)

\* POST /giftedsubs
Respond(user_id, user_name, gifted_subs, values) ==
    LET up == AppendOrUpdateRow(values, user_id, user_name, gifted_subs, 0)
    IN Served("giftedsubs", NoRequest, NoPayload, user_id, FALSE,
              Outcome("", "success", <<>>, up.calls, up.values), values)

WithinCaps(values) ==
    /\ Len(values) <= MaxRows
    /\ \A i \in 2..Len(values) : values[i][3] <= MaxSubs /\ values[i][4] <= MaxRewards

Forged == <<"sha256=", "forged">>

SignedRequest(key, data) ==
    MkRequest(<<"a">>, <<"b">>, Sign(key, <<"a">>, <<"b">>, data), data)

WebhookRequests ==
    UNION {{[request |-> SignedRequest(secret, Dumps(p)), json |-> p],
            [request |-> MkRequest(<<"a">>, <<"b">>, Forged, Dumps(p)), json |-> p]} :
           p \in Payloads}

\* no request is the latest operation on the ledger
NoServed ==
    Served("none", NoRequest, NoPayload, "", FALSE, Outcome("", "", <<>>, <<>>, <<>>), <<>>)

NoUpsert ==
    [adapter |-> "none", sheet |-> "", args |-> <<>>, before |-> <<>>, repeat |-> FALSE,
     keys |-> {}, raised |-> "", calls |-> <<>>]

Apply(served) ==
    /\ WithinCaps(served.after)
    /\ ledger' = served.after
    /\ emitted' = served.emits
    /\ http' = served
    /\ last_upsert' = NoUpsert
    /\ UNCHANGED <<secret, authVars, sigVars, sheets, regVars, th>>

WebhookPost ==
    \E r \in WebhookRequests, emit_ok \in BOOLEAN :
        \* the transport is only used, and so can only fail, for a notification
        /\ (~emit_ok) => IsNotification(r.json)
        /\ Apply(HandleWebhookRoute(r.request, r.json, ledger, emit_ok))

RewardPost ==
    \E user_id \in UserIds : Apply(IncrementRewards(user_id, ledger))

GiftedSubsPost ==
    \E g \in Gifters, gifted_subs \in 1..MaxTotal :
        Apply(Respond(g[1], g[2], gifted_subs, ledger))

\* a direct call of gsheets.GoogleSheets.append_or_update_row
Upsert ==
    \E g \in Gifters, gifted_subs \in {0, 1, 3}, rewards_given \in {0, 1} :
        LET user_id == g[1]
            user_name == g[2]
            args == <<user_id, user_name, gifted_subs, rewards_given>>
            up == AppendOrUpdateRow(ledger, user_id, user_name, gifted_subs, rewards_given)
        IN /\ WithinCaps(up.values)
           /\ ledger' = up.values
           /\ last_upsert' = [adapter |-> "gsheets", sheet |-> "", args |-> args,
                              before |-> ledger,
                              repeat |-> (last_upsert.adapter = "gsheets"
                                          /\ last_upsert.args = args),
                              keys |-> {Schema[i] : i \in 1..Len(Schema)},
                              raised |-> "", calls |-> <<>>]
           /\ emitted' = <<>>
           /\ http' = NoServed
           /\ UNCHANGED <<secret, authVars, sigVars, sheets, regVars, th>>

\* the column sets a caller may supply: the schema, one column short, one too many
DictKeys ==
    {{"user_id", "user_name", "gifted_subs", "rewards_given"},
     {"user_id", "user_name", "gifted_subs"},
     {"user_id", "user_name", "gifted_subs", "rewards_given", "note"}}

\* a direct call of append_or_update_row on a StreamerSheet of the registry
UpsertDict ==
    \E t \in DOMAIN streamer_sheets :
    \E user_id \in UserIds, user_name \in UserNames,
       gifted_subs \in {1, 3}, rewards_given \in {0}, keys \in DictKeys :
        LET id == streamer_sheets[t]
            full == [user_id |-> user_id, user_name |-> user_name,
                     gifted_subs |-> gifted_subs, rewards_given |-> rewards_given,
                     note |-> "x"]
            values_dict == [k \in keys |-> full[k]]
            args == <<user_id, user_name, gifted_subs, rewards_given>>
            up == AppendOrUpdateRowDict(sheets[id], Schema, values_dict)
        IN /\ Len(up.values) <= MaxRows
           /\ sheets' = [sheets EXCEPT ![id] = up.values]
           /\ last_upsert' = [adapter |-> "googlesheets", sheet |-> id, args |-> args,
                              before |-> sheets[id],
                              repeat |-> (last_upsert.adapter = "googlesheets"
                                          /\ last_upsert.sheet = id
                                          /\ last_upsert.args = args
                                          /\ last_upsert.raised = ""
                                          /\ up.raised = ""),
                              keys |-> keys, raised |-> up.raised, calls |-> up.calls]
           /\ UNCHANGED <<secret, authVars, sigVars, appVars, regVars>>

\* ------------------------------------------------ verifying an envelope
Deliver ==
    /\ sig_case = "none"
    /\ \E id \in Text(MaxLen), ts \in Text(MaxLen), data \in Text(MaxLen) :
          LET request == MkRequest(id, ts, Sign(secret, id, ts, data), data)
          IN /\ sig_req' = request
             /\ verdict' = IsValidNotification(secret, request).ret
             /\ sig_raised' = IsValidNotification(secret, request).raised
    /\ sig_case' = "signed"
    /\ sig_prev' = NoRequest
    /\ UNCHANGED <<secret, authVars, appVars, last_upsert, sheets, regVars>>

SigSymbols == Char \cup Secrets \cup {"sha256=", "sha1="}

\* one byte of the body, the timestamp or the signature of a signed envelope changes
Tamper ==
    /\ sig_case = "signed"
    /\ LET h == sig_req.headers
       IN \/ \E i \in 1..Len(sig_req.data) : \E c \in Char \ {sig_req.data[i]} :
                /\ sig_req' = [sig_req EXCEPT !.data[i] = c]
                /\ sig_case' = "body"
          \/ \E i \in 1..Len(h[HeaderTimestamp]) : \E c \in Char \ {h[HeaderTimestamp][i]} :
                /\ sig_req' = [sig_req EXCEPT !.headers[HeaderTimestamp][i] = c]
                /\ sig_case' = "timestamp"
          \/ \E i \in 1..Len(h[HeaderSignature]) : \E c \in SigSymbols \ {h[HeaderSignature][i]} :
                /\ sig_req' = [sig_req EXCEPT !.headers[HeaderSignature][i] = c]
                /\ sig_case' = "signature"
    /\ verdict' = IsValidNotification(secret, sig_req').ret
    /\ sig_raised' = IsValidNotification(secret, sig_req').raised
    /\ sig_prev' = sig_req
    /\ UNCHANGED <<secret, authVars, appVars, last_upsert, sheets, regVars>>

\* the text of a signed envelope is cut differently: the last byte of the id
\* becomes the first of the timestamp, or the last of the timestamp the first
\* of the body; the signature header is kept
Resplit ==
    /\ sig_case = "signed"
    /\ LET h == sig_req.headers
           id == h[HeaderId]
           ts == h[HeaderTimestamp]
       IN \/ /\ Len(id) > 0
             /\ sig_req' = [sig_req EXCEPT
                               !.headers[HeaderId] = SubSeq(id, 1, Len(id) - 1),
                               !.headers[HeaderTimestamp] = <<id[Len(id)]>> \o ts]
          \/ /\ Len(ts) > 0
             /\ sig_req' = [sig_req EXCEPT
                               !.headers[HeaderTimestamp] = SubSeq(ts, 1, Len(ts) - 1),
                               !.data = <<ts[Len(ts)]>> \o sig_req.data]
    /\ sig_case' = "resplit"
    /\ verdict' = IsValidNotification(secret, sig_req').ret
    /\ sig_raised' = IsValidNotification(secret, sig_req').raised
    /\ sig_prev' = sig_req
    /\ UNCHANGED <<secret, authVars, appVars, last_upsert, sheets, regVars>>

\* a signed envelope arrives without one of its three headers
MissingHeader ==
    /\ sig_case = "signed"
    /\ \E name \in {HeaderId, HeaderTimestamp, HeaderSignature} :
          /\ sig_req' = [sig_req EXCEPT !.headers =
                            [h \in DOMAIN sig_req.headers \ {name} |-> sig_req.headers[h]]]
          /\ sig_case' = IF name = HeaderId THEN "no_id"
                         ELSE IF name = HeaderTimestamp THEN "no_timestamp" ELSE "no_signature"
    /\ verdict' = IsValidNotification(secret, sig_req').ret
    /\ sig_raised' = IsValidNotification(secret, sig_req').raised
    /\ sig_prev' = sig_req
    /\ UNCHANGED <<secret, authVars, appVars, last_upsert, sheets, regVars>>

\* ------------------------------- SheetManager.get_streamer_sheet, by steps
\* (`op` is the method called; `miss` whether the map had no entry; `referenced`
\* the ledger the reference sheet named for the tenant when the call began;
\* `ref_tenants` and `map_after` the tenants of the reference sheet and of the
\* map right after the re-read of get_streamer_rows)
NoCall ==
    [user_id |-> "", spreadsheet_id |-> "", row_number |-> 0, provisioned |-> FALSE,
     wrote |-> {}, again |-> "none", empty |-> FALSE, raised |-> "", ret |-> "none",
     ledger |-> "", op |-> "none", miss |-> FALSE, referenced |-> "none",
     refreshed |-> FALSE, ref_tenants |-> {}, map_after |-> {}]

\* the rows of the reference sheet that name a tenant and its ledger
FullRows(ref) == {i \in 2..Len(ref) : Len(ref[i]) = 2}

Referenced(ref, user_id) ==
    LET hits == {i \in FullRows(ref) : ref[i][1] = user_id}
    IN IF hits = {} THEN "none" ELSE ref[Min(hits)][2]

\* _generate_map: a StreamerSheet per reference row, later rows replacing
\* earlier ones; KeyError on a row that lacks a column, ValueError from the
\* constructor of a StreamerSheet whose spreadsheet lacks the header
GenerateMap(ref, all_sheets) ==
    LET rows == GetAllRows(ref, FALSE)
        short == {i \in 1..Len(rows) : DOMAIN rows[i] # {"user_id", "sheet_id"}}
        blank == {i \in 1..Len(rows) \ short :
                     ~ValidateSchema(all_sheets[rows[i]["sheet_id"]], Schema)}
        users == {rows[i]["user_id"] : i \in 1..Len(rows) \ short}
        last(u) == CHOOSE i \in 1..Len(rows) \ short :
                       /\ rows[i]["user_id"] = u
                       /\ \A j \in 1..Len(rows) \ short : rows[j]["user_id"] = u => j <= i
    IN IF short \cup blank # {}
       THEN [raised |-> IF Min(short \cup blank) \in short THEN "KeyError" ELSE "ValueError",
             map |-> <<>>]
       ELSE [raised |-> "", map |-> [u \in users |-> rows[last(u)]["sheet_id"]]]

Provisioning == {"create", "cellA", "cellB", "construct"}

\* the call of worker w ends: it returns (ret, ledger) or raises
Finish(w, raised, ret, id) ==
    LET c == call[w]
        registered == IF ret = "StreamerSheet" THEN id
                      ELSE IF c.wrote = {"A", "B"} THEN c.spreadsheet_id ELSE "none"
    IN /\ pc' = [pc EXCEPT ![w] = "idle"]
       /\ call' = [call EXCEPT ![w].raised = raised, ![w].ret = ret, ![w].ledger = id]
       /\ first' = IF first[c.user_id] = "none"
                   THEN [first EXCEPT ![c.user_id] = registered] ELSE first

\* streamer_sheets.get(user_id, None), and the return on a hit
Lookup(w) ==
    /\ pc[w] = "idle"
    /\ \E user_id \in Tenants :
          LET fresh == [NoCall EXCEPT !.user_id = user_id, !.again = first[user_id],
                                      !.empty = (reference = <<RefSchema>>
                                                 /\ DOMAIN streamer_sheets = {}),
                                      !.op = "sheet",
                                      !.miss = (user_id \notin DOMAIN streamer_sheets),
                                      !.referenced = Referenced(reference, user_id)]
          IN IF user_id \in DOMAIN streamer_sheets
             THEN /\ pc' = pc
                  /\ call' = [call EXCEPT ![w] = [fresh EXCEPT !.ret = "StreamerSheet",
                                                               !.ledger = streamer_sheets[user_id]]]
                  /\ first' = IF first[user_id] = "none"
                              THEN [first EXCEPT ![user_id] = streamer_sheets[user_id]]
                              ELSE first
             ELSE /\ Len(drive) + Cardinality({v \in Workers : pc[v] = "create"}) < MaxLedgers
                  /\ pc' = [pc EXCEPT ![w] = "create"]
                  /\ call' = [call EXCEPT ![w] = fresh]
                  /\ first' = first
    /\ UNCHANGED <<secret, authVars, sigVars, appVars, last_upsert, sheets, reference, drive,
                   streamer_sheets>>

\* drive_service.files().create(...), then the row number is computed
DriveCreate(w) ==
    /\ pc[w] = "create"
    /\ \E ok \in BOOLEAN :
          IF ok
          THEN /\ drive' = Append(drive, call[w].user_id)
               /\ call' = [call EXCEPT ![w].spreadsheet_id = NewSpreadsheetId(drive),
                                       ![w].provisioned = TRUE,
                                       ![w].row_number = NewRowNumber(streamer_sheets, reference)]
               /\ pc' = [pc EXCEPT ![w] = "cellA"]
               /\ first' = first
          ELSE /\ Finish(w, "HttpError", "none", "")
               /\ drive' = drive
    /\ UNCHANGED <<secret, authVars, sigVars, appVars, last_upsert, sheets, reference, streamer_sheets>>

\* reference_sheet.update_cell(f'A{row_number}', user_id)
UpdateCellA(w) ==
    /\ pc[w] = "cellA"
    /\ \E ok \in BOOLEAN :
          IF ok
          THEN /\ reference' = UpdateCell(reference, 1, call[w].row_number, call[w].user_id)
               /\ call' = [call EXCEPT ![w].wrote = @ \cup {"A"}]
               /\ pc' = [pc EXCEPT ![w] = "cellB"]
               /\ first' = first
          ELSE /\ Finish(w, "HttpError", "none", "")
               /\ reference' = reference
    /\ UNCHANGED <<secret, authVars, sigVars, appVars, last_upsert, sheets, drive, streamer_sheets>>

\* reference_sheet.update_cell(f'B{row_number}', spreadsheet_id)
UpdateCellB(w) ==
    /\ pc[w] = "cellB"
    /\ \E ok \in BOOLEAN :
          IF ok
          THEN /\ reference' = UpdateCell(reference, 2, call[w].row_number, call[w].spreadsheet_id)
               /\ call' = [call EXCEPT ![w].wrote = @ \cup {"B"}]
               /\ pc' = [pc EXCEPT ![w] = "construct"]
               /\ first' = first
          ELSE /\ Finish(w, "HttpError", "none", "")
               /\ reference' = reference
    /\ UNCHANGED <<secret, authVars, sigVars, appVars, last_upsert, sheets, drive, streamer_sheets>>

\* streamer_sheets[user_id] = StreamerSheet(credentials_path, spreadsheet_id),
\* whose constructor validates the schema; then return spreadsheet_id
Construct(w) ==
    /\ pc[w] = "construct"
    /\ IF ValidateSchema(sheets[call[w].spreadsheet_id], Schema)
       THEN /\ streamer_sheets' = (call[w].user_id :> call[w].spreadsheet_id) @@ streamer_sheets
            /\ Finish(w, "", "str", call[w].spreadsheet_id)
       ELSE /\ streamer_sheets' = streamer_sheets
            /\ Finish(w, "ValueError", "none", "")
    /\ UNCHANGED <<secret, authVars, sigVars, appVars, last_upsert, sheets, reference, drive>>

\* get_streamer_rows up to its lookup: the reference sheet is re-read by
\* _generate_map, whose result is dropped, then streamer_sheets.get(user_id);
\* a miss goes on with the steps of _create_streamer_sheet
Refresh(w) ==
    /\ pc[w] = "idle"
    /\ \E user_id \in Tenants :
          LET generated == GenerateMap(reference, sheets)
              fresh == [NoCall EXCEPT !.user_id = user_id, !.again = first[user_id],
                                      !.op = "rows",
                                      !.miss = (user_id \notin DOMAIN streamer_sheets),
                                      !.referenced = Referenced(reference, user_id),
                                      !.refreshed = (generated.raised = ""),
                                      !.ref_tenants = {reference[i][1] : i \in FullRows(reference)},
                                      !.map_after = DOMAIN streamer_sheets,
                                      !.raised = generated.raised]
          IN IF generated.raised # ""
             THEN /\ pc' = pc
                  /\ call' = [call EXCEPT ![w] = fresh]
                  /\ first' = first
             ELSE IF user_id \in DOMAIN streamer_sheets
             THEN /\ pc' = pc
                  /\ call' = [call EXCEPT ![w] = [fresh EXCEPT !.ret = "StreamerSheet",
                                                               !.ledger = streamer_sheets[user_id]]]
                  /\ first' = IF first[user_id] = "none"
                              THEN [first EXCEPT ![user_id] = streamer_sheets[user_id]]
                              ELSE first
             ELSE /\ Len(drive) + Cardinality({v \in Workers : pc[v] = "create"}) < MaxLedgers
                  /\ pc' = [pc EXCEPT ![w] = "create"]
                  /\ call' = [call EXCEPT ![w] = fresh]
                  /\ first' = first
    /\ UNCHANGED <<secret, authVars, sigVars, appVars, last_upsert, sheets, reference, drive,
                   streamer_sheets>>

\* an external actor creates a ledger with its header and adds the tenant's
\* row at the end of the reference sheet
OutOfBand ==
    /\ Len(drive) + Cardinality({v \in Workers : pc[v] = "create"}) < MaxLedgers
    /\ \E user_id \in Tenants :
          /\ Referenced(reference, user_id) = "none"
          /\ user_id \notin DOMAIN streamer_sheets
          /\ drive' = Append(drive, user_id)
          /\ sheets' = [sheets EXCEPT ![NewSpreadsheetId(drive)] = <<Schema>>]
          /\ reference' = Append(reference, <<user_id, NewSpreadsheetId(drive)>>)
    /\ UNCHANGED <<secret, authVars, sigVars, appVars, last_upsert, streamer_sheets, pc, call,
                   first>>

GetStreamerSheet(w) ==
    \/ Lookup(w)
    \/ DriveCreate(w)
    \/ UpdateCellA(w)
    \/ UpdateCellB(w)
    \/ Construct(w)

\* ------------------------------------------- twitch.py: Twitch (OAuth)
Codes == {"c1", "c2"}
NoneStr == "None"
Tokens == {"tok1", "tok2"}
TokenOf == [c \in Codes |-> IF c = "c1" THEN "tok1" ELSE "tok2"]
LoginOf == [t \in Tokens |-> IF t = "tok1" THEN "alice" ELSE "carol"]
IdOf == [l \in {"alice", "carol"} |-> IF l = "alice" THEN "b1" ELSE "b2"]

\* how the network and the platform treat one request
Nets == {"ok", "error", "timeout"}

\* a reply of the platform, or the exception `requests` raises instead of one
Reply(kind, status_code, access_token, data) ==
    [kind |-> kind, status_code |-> status_code, access_token |-> access_token, data |-> data]

NoResponse == Reply("none", 0, "", <<>>)

Failure(net) ==
    IF net = "timeout" THEN Reply("exception", 0, "", <<>>) ELSE Reply("response", 500, "", <<>>)

\* GET /oauth2/validate
ValidateEndpoint(token, net) ==
    IF net # "ok" THEN Failure(net)
    ELSE IF token \in Tokens THEN Reply("response", 200, "", <<>>)
    ELSE Reply("response", 401, "", <<>>)

\* POST /oauth2/token with an authorization code: a code is exchanged once
TokenEndpoint(used, code, net) ==
    IF net # "ok" THEN Failure(net)
    ELSE IF code \in Codes \ used THEN Reply("response", 200, TokenOf[code], <<>>)
    ELSE Reply("response", 400, "", <<>>)

\* GET /helix/users: the user of the bearer token, or the user with a login
UsersEndpoint(token, login, net, found) ==
    IF net # "ok" THEN Failure(net)
    ELSE IF token \notin Tokens THEN Reply("response", 401, "", <<>>)
    ELSE LET l == IF login = NoneStr THEN LoginOf[token] ELSE login
         IN IF found THEN Reply("response", 200, "", <<[login |-> l, id |-> IdOf[l]]>>)
            ELSE Reply("response", 200, "", <<>>)

\* make_request: the response, or None after any RequestException
\* (raise_for_status raises one for a 4xx or 5xx status)
MakeRequest(reply) ==
    IF reply.kind = "exception" \/ reply.status_code >= 400 THEN NoResponse ELSE reply

IsAccessTokenValid(token, net) ==
    LET response == MakeRequest(ValidateEndpoint(token, net))
    IN IF response = NoResponse
       THEN [raised |-> "AttributeError", ret |-> FALSE]
       ELSE [raised |-> "", ret |-> (response.status_code = 200)]

\* the state a handshake works on, and the requests it has sent
\* (`condition` is the broadcaster_user_id of the subscription request, "" while none is sent)
Flow(twitch, used, held) ==
    [tw |-> twitch, consumed |-> used, subs |-> held, requests |-> <<>>, condition |-> ""]

Step(raised, ret, st) == [raised |-> raised, ret |-> ret, st |-> st]

RequestUserAccessToken_ReturnOnFailure(st, code, net) ==
    LET reply == TokenEndpoint(st.consumed, code, net)
        response == MakeRequest(reply)
        sent == [st EXCEPT !.requests = Append(@, "token"),
                           !.consumed = IF response # NoResponse THEN @ \cup {code} ELSE @]
    IN IF response = NoResponse
       THEN Step("", NoneStr, sent)
       ELSE Step("", NoneStr, [sent EXCEPT !.tw.user_access_token = response.access_token])

RequestUserAccessToken(st, code, net) ==
    LET reply == TokenEndpoint(st.consumed, code, net)
        response == MakeRequest(reply)
        sent == [st EXCEPT !.requests = Append(@, "token"),
                           !.consumed = IF response # NoResponse THEN @ \cup {code} ELSE @]
    IN IF response = NoResponse
       THEN Step("AttributeError", NoneStr, sent)
       ELSE Step("", NoneStr, [sent EXCEPT !.tw.user_access_token = response.access_token])

GetUserName(st, net, found) ==
    LET response == MakeRequest(UsersEndpoint(st.tw.user_access_token, NoneStr, net, found))
        sent == [st EXCEPT !.requests = Append(@, "users")]
    IN IF response = NoResponse THEN Step("RuntimeError", NoneStr, sent)
       ELSE IF response.data # <<>> THEN Step("", response.data[1].login, sent)
       ELSE Step("RuntimeError", NoneStr, sent)

GetBroadcasterId(st, net_name, net_id, found) ==
    LET user_name == GetUserName(st, net_name, TRUE)
    IN IF user_name.raised # "" THEN user_name
       ELSE LET response == MakeRequest(UsersEndpoint(st.tw.user_access_token, user_name.ret,
                                                       net_id, found))
                sent == [user_name.st EXCEPT !.requests = Append(@, "users?login")]
            IN IF response = NoResponse THEN Step("AttributeError", NoneStr, sent)
               ELSE IF response.data # <<>>
               THEN Step("", response.data[1].id,
                         [sent EXCEPT !.tw.broadcaster_id = response.data[1].id])
               ELSE Step("", NoneStr, sent)

\* POST /helix/eventsub/subscriptions: `status` is the success status the
\* platform answers with; a request without a broadcaster id is refused
SubscriptionsEndpoint(broadcaster_id, net, status) ==
    IF net # "ok" THEN Failure(net)
    ELSE IF broadcaster_id = NoneStr THEN Reply("response", 400, "", <<>>)
    ELSE Reply("response", status, "", <<>>)

SubscribeToEventsub_RaiseOnFailure(st, net, status) ==
    LET reply == SubscriptionsEndpoint(st.tw.broadcaster_id, net, status)
        response == MakeRequest(reply)
        sent == [st EXCEPT !.requests = Append(@, "subscriptions"),
                           !.condition = st.tw.broadcaster_id,
                           !.subs = IF response # NoResponse
                                    THEN @ \cup {st.tw.broadcaster_id} ELSE @]
    IN IF response # NoResponse /\ response.status_code = 200
       THEN Step("", "True", sent)
       ELSE Step("RuntimeError", "False", sent)

SubscribeToEventsub(st, net, status) ==
    LET reply == SubscriptionsEndpoint(st.tw.broadcaster_id, net, status)
        response == MakeRequest(reply)
        sent == [st EXCEPT !.requests = Append(@, "subscriptions"),
                           !.condition = st.tw.broadcaster_id,
                           !.subs = IF response # NoResponse
                                    THEN @ \cup {st.tw.broadcaster_id} ELSE @]
    IN IF response # NoResponse /\ response.status_code = 200
       THEN Step("", "True", sent)
       ELSE Step("", "False", sent)

Calm == [token |-> "ok", name |-> "ok", id |-> "ok", sub |-> "ok", found |-> TRUE, status |-> 202]

\* the replies one handshake meets: the network for each request in turn,
\* whether the platform knows the login, the status of an accepted subscription;
\* a request that follows a failed one is not sent and its reply is left calm
Weather ==
    {[Calm EXCEPT !.token = net] : net \in Nets \ {"ok"}}
        \cup {[Calm EXCEPT !.name = "timeout"], [Calm EXCEPT !.id = "timeout"]}
        \cup {[Calm EXCEPT !.found = found, !.sub = "timeout"] : found \in BOOLEAN}
        \cup {[Calm EXCEPT !.found = found, !.status = status] :
                  found \in BOOLEAN, status \in {200, 202}}

\* the element of a one-element set
The(S) == CHOOSE x \in S : TRUE

\* (each call is made once and its outcome named: token, id, sub)
HandleVerification(st, auth_code, wx) ==
    The({IF token.raised # "" THEN token
         ELSE The({IF id.raised # "" THEN id
                   ELSE The({IF sub.raised # "" THEN sub
                             ELSE Step("", sub.st.tw.user_access_token, sub.st) :
                             sub \in {SubscribeToEventsub(id.st, wx.sub, wx.status)}}) :
                   id \in {GetBroadcasterId(token.st, wx.name, wx.id, wx.found)}}) :
         token \in {RequestUserAccessToken(st, auth_code, wx.token)}})

SetUserAccessTokenIfValid(current, token, net) ==
    LET valid == IsAccessTokenValid(token, net)
    IN [raised |-> valid.raised, valid |-> valid.ret,
        user_access_token |-> IF valid.raised = "" /\ valid.ret THEN token ELSE current]

\* ------------------------------------------ main.py: GET / and GET /webhook
\* what the last OAuth operation was given, what it did, and the state before it
Auth(op, code, token, error, net, raised, valid, status, requests, before) ==
    [op |-> op, code |-> code, token |-> token, error |-> error, net |-> net,
     raised |-> raised, valid |-> valid, status |-> status, requests |-> requests,
     before |-> before, wx |-> Calm, body |-> <<>>, condition |-> ""]

Snapshot(twitch, sess, held, used) ==
    [tw |-> twitch, session |-> sess, subs |-> held, consumed |-> used]

NoTwitch == [user_access_token |-> NoneStr, broadcaster_id |-> NoneStr]

NoAuth ==
    Auth("none", NoneStr, NoneStr, FALSE, "ok", "", FALSE, 0, <<>>,
         Snapshot(NoTwitch, NoneStr, {}, {}))

\* a token the platform no longer accepts
Stale == "stale"

\* home(): the token of the session is validated and kept when valid; an
\* exception of the view is a 500
Home ==
    \E token \in Tokens \cup {Stale}, net \in Nets :
        LET r == SetUserAccessTokenIfValid(main_token, token, net)
        IN /\ main_token' = r.user_access_token
           /\ auth' = Auth("validate", NoneStr, token, FALSE, net, r.raised, r.valid,
                           IF r.raised = "" THEN 200 ELSE 500, <<"validate">>,
                           Snapshot(tw, session, subs, consumed))
           /\ UNCHANGED <<secret, tw, session, consumed, subs, hs, sigVars, appVars, regVars,
                          last_upsert, sheets>>

\* the query parameters error and error_description of a refused authorization
ErrorParam == "access_denied"
ErrorDescription == "The user denied you access"

ErrorMsg == <<"Error: ", ErrorParam, ": ", ErrorDescription>>
MissingCode == <<"Missing \"code\" argument.">>

Reached(status, body, raised, sess, st) ==
    [status |-> status, body |-> body, raised |-> raised, session |-> sess, st |-> st]

HandleVerificationRoute_CodeFirst(st, sess, auth_code, error, wx) ==
    IF auth_code = NoneStr THEN Reached(200, IF error THEN ErrorMsg ELSE MissingCode, "", sess, st)
    ELSE LET v == HandleVerification(st, auth_code, wx)
         IN IF v.raised # "" THEN Reached(500, <<>>, v.raised, sess, v.st)
            ELSE Reached(302, <<"/">>, "", v.ret, v.st)

HandleVerificationRoute(st, sess, auth_code, error, wx) ==
    IF error THEN Reached(200, ErrorMsg, "", sess, st)
    ELSE IF auth_code = NoneStr THEN Reached(200, MissingCode, "", sess, st)
    ELSE LET v == HandleVerification(st, auth_code, wx)
         IN IF v.raised # "" THEN Reached(500, <<>>, v.raised, sess, v.st)
            ELSE Reached(302, <<"/">>, "", v.ret, v.st)

VerificationGet ==
    \E auth_code \in Codes \cup {NoneStr}, error \in BOOLEAN :
      \E wx \in IF error \/ auth_code = NoneStr THEN {Calm} ELSE Weather :
      \E r \in {HandleVerificationRoute(Flow(tw, consumed, subs), session, auth_code, error, wx)} :
           /\ tw' = r.st.tw
           /\ consumed' = r.st.consumed
           /\ subs' = r.st.subs
           /\ session' = r.session
           /\ auth' = [Auth("callback", auth_code, NoneStr, error, wx.token, r.raised, FALSE,
                            r.status, r.st.requests, Snapshot(tw, session, subs, consumed))
                          EXCEPT !.wx = wx, !.body = r.body, !.condition = r.st.condition]
           /\ UNCHANGED <<secret, main_token, hs, sigVars, appVars, regVars, last_upsert, sheets>>

\* ------------- the ledger's read-modify-write requests, API call by API call
\* (two request threads on the one gsheets.GoogleSheets of services.py: "upsert"
\* is append_or_update_row as handle_webhook and /giftedsubs call it, "reward"
\* is the body of POST /reward; `base` is the sheet when the request came in)
NoThread ==
    [pc |-> "idle", op |-> "none", user_id |-> "", user_name |-> "", gifted_subs |-> 0,
     row |-> None, read |-> <<>>, base |-> <<>>, raised |-> "", served |-> 0]

RECURSIVE SumServed(_)
SumServed(ws) ==
    IF ws = {} THEN 0
    ELSE LET w == CHOOSE x \in ws : TRUE IN th[w].served + SumServed(ws \ {w})

ThreadVarsUnchanged ==
    UNCHANGED <<secret, authVars, sigVars, regVars, emitted, http, last_upsert, sheets>>

\* a request comes in
ThStart(w) ==
    /\ th[w].pc \in {"idle", "done"}
    /\ SumServed(Workers) < MaxRequests
    /\ \E g \in Gifters, op \in {"upsert", "reward"} :
          th' = [th EXCEPT ![w] = [NoThread EXCEPT !.pc = "find", !.op = op, !.user_id = g[1],
                                                   !.user_name = g[2],
                                                   !.gifted_subs = IF op = "upsert" THEN 1 ELSE 0,
                                                   !.base = ledger,
                                                   !.served = th[w].served + 1]]
    /\ UNCHANGED ledger
    /\ ThreadVarsUnchanged

\* row = get_user_row(user_id)
ThFind(w) ==
    /\ th[w].pc = "find"
    /\ LET row == GetUserRow(ledger, th[w].user_id)
       IN th' = [th EXCEPT ![w].row = row,
                           ![w].pc = IF row # None THEN "get"
                                     ELSE IF th[w].op = "upsert" THEN "append" ELSE "done",
                           ![w].raised = IF row = None /\ th[w].op = "reward"
                                         THEN "UnboundLocalError" ELSE ""]
    /\ UNCHANGED ledger
    /\ ThreadVarsUnchanged

\* values().append(range='Sheet1', [[user_id, user_name, gifted_subs, rewards_given]])
ThAppend(w) ==
    /\ th[w].pc = "append"
    /\ ledger' = Append(ledger, <<th[w].user_id, th[w].user_name, th[w].gifted_subs, 0>>)
    /\ WithinCaps(ledger')
    /\ th' = [th EXCEPT ![w].pc = "done"]
    /\ ThreadVarsUnchanged

\* values().get(range=f'Sheet1!A{row}:D{row}')
ThGet(w) ==
    /\ th[w].pc = "get"
    /\ th' = [th EXCEPT ![w].read = ledger[th[w].row], ![w].pc = "update"]
    /\ UNCHANGED ledger
    /\ ThreadVarsUnchanged

\* values().update(range=f'Sheet1!A{row}:D{row}', the whole row)
ThUpdate(w) ==
    /\ th[w].pc = "update"
    /\ LET t == th[w]
           written == IF t.op = "upsert"
                      THEN <<t.user_id, t.user_name, t.gifted_subs + t.read[3], 0 + t.read[4]>>
                      ELSE <<t.read[1], t.read[2], t.read[3], t.read[4] + 1>>
       IN ledger' = [ledger EXCEPT ![t.row] = written]
    /\ WithinCaps(ledger')
    /\ th' = [th EXCEPT ![w].pc = "done"]
    /\ ThreadVarsUnchanged

LedgerSteps(w) ==
    \/ ThStart(w)
    \/ ThFind(w)
    \/ ThAppend(w)
    \/ ThGet(w)
    \/ ThUpdate(w)

\* ------------------- TwitchHandler.handle_verification, statement by statement
\* (two request threads of main.py on the one TwitchHandler of services.py;
\* `ret` is what the call returns to the route, which puts it in the session
\* of the browser that made the request)
NoHandshake == [pc |-> "idle", code |-> NoneStr, raised |-> "", ret |-> NoneStr, condition |-> ""]

Advance(w, r, next) ==
    /\ tw' = r.st.tw
    /\ consumed' = r.st.consumed
    /\ subs' = r.st.subs
    /\ hs' = [hs EXCEPT ![w].pc = IF r.raised # "" THEN "done" ELSE next,
                        ![w].raised = r.raised,
                        ![w].condition = IF r.st.condition # "" THEN r.st.condition ELSE @]
    /\ UNCHANGED <<secret, main_token, session, auth, sigVars, appVars, regVars, last_upsert,
                   sheets>>

\* the route is entered with an authorization code no other request carries
HsBegin(w) ==
    /\ hs[w].pc = "idle"
    /\ \E auth_code \in Codes \ (consumed \cup {hs[v].code : v \in Workers}) :
          hs' = [hs EXCEPT ![w] = [NoHandshake EXCEPT !.pc = "token", !.code = auth_code]]
    /\ UNCHANGED <<secret, tw, main_token, session, consumed, subs, auth, sigVars, appVars,
                   regVars, last_upsert, sheets>>

\* self.twitch.request_user_access_token(auth_code)
HsToken(w) ==
    /\ hs[w].pc = "token"
    /\ \E net \in {"ok", "timeout"} :
       \E r \in {RequestUserAccessToken(Flow(tw, consumed, subs), hs[w].code, net)} :
          Advance(w, r, "id")

\* self.twitch.get_broadcaster_id()
HsBroadcasterId(w) ==
    /\ hs[w].pc = "id"
    /\ \E net \in {"ok", "timeout"} :
       \E r \in {GetBroadcasterId(Flow(tw, consumed, subs), "ok", net, TRUE)} :
          Advance(w, r, "subscribe")

\* self.twitch.subscribe_to_eventsub()
HsSubscribe(w) ==
    /\ hs[w].pc = "subscribe"
    /\ \E net \in {"ok", "timeout"} :
       \E r \in {SubscribeToEventsub(Flow(tw, consumed, subs), net, Calm.status)} :
          Advance(w, r, "return")

\* return self.twitch.get_user_access_token()
HsReturn(w) ==
    /\ hs[w].pc = "return"
    /\ hs' = [hs EXCEPT ![w].pc = "done", ![w].ret = tw.user_access_token]
    /\ UNCHANGED <<secret, tw, main_token, session, consumed, subs, auth, sigVars, appVars,
                   regVars, last_upsert, sheets>>

HandleVerificationSteps(w) ==
    \/ HsBegin(w)
    \/ HsToken(w)
    \/ HsBroadcasterId(w)
    \/ HsSubscribe(w)
    \/ HsReturn(w)

\* ----------------------------------------------------------------- Init
Header == Schema

SheetIds == {"L0"} \cup {LedgerNames[i] : i \in 1..MaxLedgers}

\* the state after construction, with hub secret `key` and the tenants `known`
\* (each with a ledger whose header is in place) in the reference sheet
Construction(key, known) ==
    /\ secret = key
    /\ sig_req = NoRequest
    /\ sig_case = "none"
    /\ verdict = FALSE
    /\ sig_raised = ""
    /\ sig_prev = NoRequest
    /\ ledger = <<Header>>
    /\ emitted = <<>>
    /\ http = NoServed
    /\ th = [w \in Workers |-> NoThread]
    /\ last_upsert = NoUpsert
    /\ sheets = [id \in SheetIds |-> IF id = "L0" THEN <<Header>> ELSE <<>>]
    /\ reference = IF "t0" \in known THEN <<RefSchema, <<"t0", "L0">>>> ELSE <<RefSchema>>
    /\ drive = <<>>
    /\ streamer_sheets = [t \in known |-> "L0"]
    /\ pc = [w \in Workers |-> "idle"]
    /\ call = [w \in Workers |-> NoCall]
    /\ first = [t \in Tenants |-> "none"]
    /\ tw = NoTwitch
    /\ main_token = NoneStr
    /\ session = NoneStr
    /\ consumed = {}
    /\ subs = {}
    /\ auth = NoAuth
    /\ hs = [w \in Workers |-> NoHandshake]

Init == Construction("k1", {"t0"})

InitAnySecret == \E key \in Secrets : Construction(key, {"t0"})

InitRegistry == \E known \in {{}, {"t0"}} : Construction("k1", known)

\* the application: the routes of main.py and direct upserts on the gsheets ledger
Next ==
    \/ WebhookPost
    \/ RewardPost
    \/ GiftedSubsPost
    \/ Upsert

Spec == Init /\ [][Next]_vars

\* the verifier applied to signed and tampered envelopes
NextSig ==
    \/ Deliver
    \/ Tamper
    \/ MissingHeader
    \/ Resplit

SpecSig == InitAnySecret /\ [][NextSig]_vars

\* upserts through the googlesheets adapter on the ledgers of the registry
NextSheets == UpsertDict

SpecSheets == Init /\ [][NextSheets]_vars

\* get_streamer_sheet called again and again by one caller
NextRegistrySeq == GetStreamerSheet(1)

SpecRegistrySeq == InitRegistry /\ [][NextRegistrySeq]_vars

\* get_streamer_sheet called by concurrent request threads
NextRegistry == \E w \in Workers : GetStreamerSheet(w)

SpecRegistry == InitRegistry /\ [][NextRegistry]_vars

\* get_streamer_sheet and get_streamer_rows called by one caller while an
\* external actor adds tenants to the reference sheet
NextRefresh ==
    \/ OutOfBand
    \/ Refresh(1)
    \/ GetStreamerSheet(1)

SpecRefresh == InitRegistry /\ [][NextRefresh]_vars

\* the OAuth callback and the validation of session tokens
NextAuth ==
    \/ Home
    \/ VerificationGet

SpecAuth == Init /\ [][NextAuth]_vars

\* ledger requests served by concurrent request threads
NextConcurrent == \E w \in Workers : LedgerSteps(w)

SpecConcurrent == Init /\ [][NextConcurrent]_vars

\* authorization callbacks served by concurrent request threads
NextHandshake == \E w \in Workers : HandleVerificationSteps(w)

SpecHandshake == Init /\ [][NextHandshake]_vars

\* ================================================================ claims

\* C1: a webhook POST whose signature does not match the computed one never
\* reaches WebhookHandler.handle_webhook, touches neither the ledger nor the
\* transport, and is answered with a rejection.
C1_InvalidSignatureRejected ==
    (http.route = "webhook" /\ ~IsValidNotification(secret, http.request).ret)
        => /\ ~http.invoked
           /\ http.calls = <<>>
           /\ emitted = <<>>
           /\ ledger = http.before
           /\ http.status \in {401, 403}

\* C5: the verifier accepts an envelope carrying the sender's signature and
\* rejects it once one byte of its body, timestamp or signature has changed.
C5_VerifierAcceptsSignedRejectsTampered ==
    /\ sig_case = "signed" => verdict = TRUE
    /\ sig_case \in {"body", "timestamp", "signature"} => verdict = FALSE

C5_Witness ==
    /\ sig_case = "timestamp"
    /\ verdict = FALSE
    /\ sig_req.data # <<>>

\* C8: a payload with a "challenge" field is answered with the challenge value
\* and causes no backend call, no ledger change and no emit.
C8_ChallengeEchoed ==
    (http.route = "webhook" /\ "challenge" \in http.json.keys)
        => /\ http.status = 200
           /\ http.body = http.json.challenge
           /\ http.calls = <<>>
           /\ emitted = <<>>
           /\ ledger = http.before

C8_Witness ==
    /\ http.route = "webhook"
    /\ http.json.keys = {"challenge", "event"}
    /\ http.body = "abc123"
    /\ Len(ledger) > 1

HandledNotification ==
    /\ http.route = "webhook"
    /\ IsNotification(http.json)
    /\ http.raised = ""

HasRow(values, user_id) == \E i \in 2..Len(values) : values[i][1] = user_id

UpsertedSheet == IF last_upsert.adapter = "gsheets" THEN ledger ELSE sheets[last_upsert.sheet]

\* C2: after append_or_update_row was called twice in a row with the same
\* (user_id, user_name, gifted_subs, rewards_given), the sheet holds exactly one
\* row of that user_id, and it is the row of the second call.
C2_UpsertIdempotent ==
    last_upsert.repeat
        => LET rows == {i \in 2..Len(UpsertedSheet) : UpsertedSheet[i][1] = last_upsert.args[1]}
           IN /\ Cardinality(rows) = 1
              /\ \A i \in rows : UpsertedSheet[i] = last_upsert.args

OneRowPerGifter(values) ==
    \A i, j \in 2..Len(values) : i # j => values[i][1] # values[j][1]

\* C6: no ledger holds two rows of the same gifter id, whatever upserts,
\* notifications and reward actions were made on it.
C6_OneRowPerGifter ==
    /\ OneRowPerGifter(ledger)
    /\ \A id \in SheetIds : OneRowPerGifter(sheets[id])

\* C3: once a call of get_streamer_sheet for a tenant has ended with the tenant
\* registered, a later call for that tenant creates no spreadsheet, writes no
\* reference cell, and what it returns is a handle of that same ledger.
C3_ResolveIdempotent ==
    \A w \in Workers :
        call[w].again # "none"
            => /\ ~call[w].provisioned
               /\ call[w].wrote = {}
               /\ call[w].ret # "none"
                    => (call[w].ret = "StreamerSheet" /\ call[w].ledger = call[w].again)

\* C4: no two calls are inside the provisioning sequence of the same tenant
\* at the same time.
C4_OneProvisioningPerTenant ==
    \A w1, w2 \in Workers :
        (w1 # w2 /\ pc[w1] \in Provisioning /\ pc[w2] \in Provisioning)
            => call[w1].user_id # call[w2].user_id

TenantRows(t) ==
    {i \in 2..Len(reference) : Len(reference[i]) >= 1 /\ reference[i][1] = t}

\* C7: under sequential calls, failed ones included, no tenant id is in more
\* than one row of the reference sheet.
C7_TenantUnique ==
    \A t \in Tenants : Cardinality(TenantRows(t)) <= 1

C7_Witness ==
    /\ Len(drive) >= 2
    /\ \E i \in 1..Len(drive) : drive[i] # call[1].user_id
    /\ call[1].wrote = {"A", "B"}
    /\ call[1].raised = "ValueError"
    /\ TenantRows(call[1].user_id) # {}

\* C11: no step of the application (notification, reward action, upsert)
\* lowers the gifted_subs or the rewards_given of a row of the ledger, removes
\* a row or gives a row to another gifter.
C11_CountsNeverDecrease ==
    [][/\ Len(ledger') >= Len(ledger)
       /\ \A i \in 2..Len(ledger) :
             /\ ledger'[i][1] = ledger[i][1]
             /\ ledger'[i][3] >= ledger[i][3]
             /\ ledger'[i][4] >= ledger[i][4]]_vars

C11_Witness ==
    /\ http.route = "reward"
    /\ http.raised = ""
    /\ \E i \in 2..Len(ledger) :
          /\ ledger[i][1] = http.user_id
          /\ ledger[i][4] = http.before[i][4] + 1
          /\ ledger[i][3] >= 2

\* C12: after one upsert on a ledger that holds only its header, get_all_rows
\* returns exactly one row, and it equals the upserted values.
C12_RoundTripOnEmptyLedger ==
    (last_upsert.adapter = "gsheets" /\ last_upsert.before = <<Header>>)
        => GetAllRows_gsheets(ledger) =
              <<[user_id |-> last_upsert.args[1], user_name |-> last_upsert.args[2],
                 gifted_subs |-> last_upsert.args[3], rewards_given |-> last_upsert.args[4]]>>

C12_Witness ==
    /\ last_upsert.adapter = "gsheets"
    /\ last_upsert.before = <<Header>>
    /\ last_upsert.args = <<"42", "ann", 3, 0>>
    /\ Len(ledger) = 2

\* the call of worker w has ended and no backend request of it failed
Ended(w) ==
    /\ pc[w] = "idle"
    /\ call[w].user_id # ""
    /\ call[w].raised # "HttpError"

\* C13: a call for an unknown tenant that starts from a header-only reference
\* sheet and an empty map creates one spreadsheet, leaves the reference sheet
\* with exactly the row (user_id, new spreadsheet id), caches the StreamerSheet
\* and returns a handle of the new ledger.
C13_UnknownTenantProvisioned ==
    \A w \in Workers :
        (Ended(w) /\ call[w].empty)
            => LET c == call[w]
               IN /\ c.provisioned
                  /\ reference = <<RefSchema, <<c.user_id, c.spreadsheet_id>>>>
                  /\ c.user_id \in DOMAIN streamer_sheets
                  /\ streamer_sheets[c.user_id] = c.spreadsheet_id
                  /\ c.ret # "none"
                  /\ c.ledger = c.spreadsheet_id

\* C14: a reference row that holds a tenant id and a ledger id is never
\* changed or removed by a later step, and the sheet never shrinks.
C14_ReferenceAppendOnly ==
    [][/\ Len(reference') >= Len(reference)
       /\ \A i \in 2..Len(reference) :
             Len(reference[i]) = 2 => reference'[i] = reference[i]]_vars

Malformed(data) == "challenge" \notin data.keys /\ ~IsNotification(data)

\* C15: a payload without a challenge that has no event, or an event without
\* user_id, user_name or total, makes the handler fail with the error of the
\* missing key, and nothing is read, written or emitted for it.
C15_MalformedPayloadFails ==
    (http.route = "webhook" /\ Malformed(http.json))
        => /\ http.raised = "KeyError"
           /\ http.calls = <<>>
           /\ emitted = <<>>
           /\ ledger = http.before

C15_Witness ==
    /\ http.route = "webhook"
    /\ http.json.keys = {"event"}
    /\ http.json.event.keys = {"user_id", "user_name"}
    /\ http.raised = "KeyError"
    /\ Len(ledger) > 1

\* C16: a correctly signed POST /webhook with a malformed payload is answered
\* with a success status.
C16_MalformedAcknowledged ==
    (http.route = "webhook" /\ Malformed(http.json)
     /\ IsValidNotification(secret, http.request).ret)
        => http.status \in 200..299

\* C17: when the emit fails while a notification is handled, the handler still
\* returns 'OK' and the upsert of the notification is in the ledger.
C17_EmitFailureAbsorbed ==
    (http.route = "webhook" /\ IsNotification(http.json) /\ ~http.emit_ok)
        => LET e == http.json.event
           IN /\ http.raised = ""
              /\ http.body = "OK"
              /\ ledger = AppendOrUpdateRow(http.before, e.user_id, e.user_name, e.total, 0).values

\* C18: for an envelope that lacks its message-id, timestamp or signature
\* header, the verifier returns false and raises nothing.
C18_MissingHeaderRejected ==
    sig_case \in {"no_id", "no_timestamp", "no_signature"}
        => verdict = FALSE /\ sig_raised = ""
\* C19: is_access_token_valid returns a boolean and never raises: true exactly
\* when the validation endpoint accepted the token, false when the token was
\* rejected or the request failed or timed out.
C19_TokenValidationFailsClosed ==
    auth.op = "validate" =>
        /\ auth.raised = ""
        /\ auth.valid = (auth.net = "ok" /\ auth.token \in Tokens)

\* the last callback carried a code whose exchange the platform or the network failed
ExchangeFailed ==
    /\ auth.op = "callback"
    /\ ~auth.error
    /\ auth.code # NoneStr
    /\ MakeRequest(TokenEndpoint(auth.before.consumed, auth.code, auth.net)) = NoResponse

\* C20: when the exchange of an authorization code fails (upstream error, no
\* response, reuse of a consumed code) an error reaches the caller after one
\* token request, the user token of the handshake and of the session are what
\* they were, and no subscription is registered.
C20_FailedExchangeSurfaced ==
    ExchangeFailed =>
        /\ auth.raised # ""
        /\ auth.status = 500
        /\ auth.requests = <<"token">>
        /\ tw = auth.before.tw
        /\ session = auth.before.session
        /\ subs = auth.before.subs

\* a code that an earlier handshake consumed is presented again over a working network
C20_Witness ==
    /\ ExchangeFailed
    /\ auth.net = "ok"
    /\ auth.code \in auth.before.consumed
    /\ auth.before.session # NoneStr

\* the calls of the handshake of the last callback, replayed on the state it started from
LastFlow == Flow(auth.before.tw, auth.before.consumed, auth.before.subs)
TokenStep == RequestUserAccessToken(LastFlow, auth.code, auth.wx.token)
IdStep == GetBroadcasterId(TokenStep.st, auth.wx.name, auth.wx.id, auth.wx.found)
SubStep == SubscribeToEventsub(IdStep.st, auth.wx.sub, auth.wx.status)

\* the last callback carried a code and the platform exchanged it for a token
Exchanged ==
    /\ auth.op = "callback"
    /\ ~auth.error
    /\ auth.code # NoneStr
    /\ TokenStep.raised = ""

\* ... and the platform then answered the lookup of the login with no user
NoIdentity ==
    /\ Exchanged
    /\ auth.wx.name = "ok"
    /\ auth.wx.id = "ok"
    /\ ~auth.wx.found

\* C21: when the platform reports no identity for the authenticated login,
\* get_broadcaster_id fails and the flow is aborted: no subscription request is
\* sent, and handle_verification returns no token (none reaches the session).
C21_NoIdentityAborts ==
    NoIdentity =>
        /\ IdStep.raised # ""
        /\ auth.raised # ""
        /\ \A i \in 1..Len(auth.requests) : auth.requests[i] # "subscriptions"
        /\ session = auth.before.session

\* ... and the subscription request of the handshake got an error status or no response
SubFailed ==
    /\ Exchanged
    /\ IdStep.raised = ""
    /\ MakeRequest(SubscriptionsEndpoint(IdStep.st.tw.broadcaster_id, auth.wx.sub,
                                         auth.wx.status)) = NoResponse

\* C22: when the subscription request gets a non-success status or no
\* response, subscribe_to_eventsub returns false without raising, and
\* handle_verification completes and returns the user access token, which the
\* callback stores in the session.
C22_SubscriptionFailureNotFatal ==
    SubFailed =>
        /\ SubStep.raised = ""
        /\ SubStep.ret = "False"
        /\ auth.raised = ""
        /\ auth.status = 302
        /\ session = TokenOf[auth.code]
        /\ session = tw.user_access_token

\* the subscription request of a handshake with a resolved broadcaster id timed out
C22_Witness ==
    /\ SubFailed
    /\ auth.wx.sub = "timeout"
    /\ auth.wx.found
    /\ auth.requests = <<"token", "users", "users?login", "subscriptions">>

\* C23: a handshake sends a subscription request only after it obtained a user
\* token and resolved a broadcaster id itself; the request never carries an
\* absent broadcaster id or one left over from an earlier handshake.
C23_SubscribeAfterResolve ==
    (auth.op = "callback" /\ auth.condition # "") =>
        /\ Exchanged
        /\ IdStep.raised = ""
        /\ IdStep.ret # NoneStr
        /\ auth.condition = IdStep.ret

\* the last callback carried an error parameter, or no code
Refused == auth.op = "callback" /\ (auth.error \/ auth.code = NoneStr)

\* C26: a callback with an error parameter, or without a code, is answered
\* with the upstream error text (or the missing-code message); no token
\* exchange, lookup or subscription request is sent and the session, the
\* handshake's token and the platform are as they were.
C26_RefusedCallbackInert ==
    Refused =>
        /\ auth.body = (IF auth.error THEN ErrorMsg ELSE MissingCode)
        /\ auth.requests = <<>>
        /\ session = auth.before.session
        /\ tw = auth.before.tw
        /\ subs = auth.before.subs
        /\ consumed = auth.before.consumed

\* a callback that carries both an error and a code the platform would exchange
C26_Witness ==
    /\ Refused
    /\ auth.error
    /\ auth.code \in Codes \ auth.before.consumed

SchemaKeys == {Schema[i] : i \in 1..Len(Schema)}

\* C24: an upsert whose column set differs from the schema of the store raises
\* before any backend read or write: the sheet is as it was, no value written.
C24_SchemaMismatchRejected ==
    (last_upsert.adapter = "googlesheets" /\ last_upsert.keys # SchemaKeys) =>
        /\ last_upsert.raised = "ValueError"
        /\ last_upsert.calls = <<>>
        /\ sheets[last_upsert.sheet] = last_upsert.before

\* a dictionary one column short is upserted into a ledger that holds a row
C24_Witness ==
    /\ last_upsert.adapter = "googlesheets"
    /\ last_upsert.keys = SchemaKeys \ {"rewards_given"}
    /\ Len(last_upsert.before) = 2

\* the last adapter call was made with the schema's columns for a gifter with a row
UpsertOfKnown ==
    /\ last_upsert.adapter # "none"
    /\ last_upsert.keys = SchemaKeys
    /\ HasRow(last_upsert.before, last_upsert.args[1])

\* C27: on an upsert for a gifter that has a row, the gsheets adapter stores
\* the stored total plus the incoming gifted_subs, and the googlesheets adapter
\* replaces the row by the incoming values.
C27_DeltaAndAbsolute ==
    UpsertOfKnown =>
        LET before == last_upsert.before
            i == Min({k \in 2..Len(before) : before[k][1] = last_upsert.args[1]})
        IN /\ last_upsert.raised = ""
           /\ Len(UpsertedSheet) = Len(before)
           /\ IF last_upsert.adapter = "gsheets"
              THEN UpsertedSheet[i][3] = before[i][3] + last_upsert.args[3]
              ELSE UpsertedSheet[i] = last_upsert.args

\* C29: an upsert changes one row only: the row of the key is overwritten
\* cell by cell when there is one, otherwise one row is added right after the
\* last row; the header and every other row stay as they were.
C29_UpsertTouchesOneRow ==
    (last_upsert.adapter = "googlesheets" /\ last_upsert.keys = SchemaKeys) =>
        LET before == last_upsert.before
            hits == {k \in 2..Len(before) : before[k][1] = last_upsert.args[1]}
        IN IF hits = {}
           THEN sheets[last_upsert.sheet] = Append(before, last_upsert.args)
           ELSE \E i \in hits : sheets[last_upsert.sheet] = [before EXCEPT ![i] = last_upsert.args]

\* C25: right after get_streamer_rows has re-read the reference sheet, the map
\* holds an entry for every tenant row of the reference sheet, rows added by
\* an external actor since startup included.
C25_RefreshCoversReference ==
    \A w \in Workers :
        (call[w].op = "rows" /\ call[w].refreshed)
            => call[w].ref_tenants \subseteq call[w].map_after

\* C28: a get_streamer_sheet call that misses the map for a tenant the
\* reference sheet has a row for creates no spreadsheet and writes no reference
\* cell, and what it returns and caches is a handle of the ledger of that row.
C28_MissResolvedFromReference ==
    \A w \in Workers :
        (call[w].op = "sheet" /\ call[w].miss /\ call[w].referenced # "none")
            => /\ pc[w] \notin Provisioning
               /\ ~call[w].provisioned
               /\ call[w].wrote = {}
               /\ call[w].ret = "StreamerSheet"
               /\ call[w].ledger = call[w].referenced
               /\ call[w].user_id \in DOMAIN streamer_sheets
               /\ streamer_sheets[call[w].user_id] = call[w].referenced

\* C36: for every handled notification the gifted_subs and rewards_given of
\* the emitted update_gifters event are those of the gifter's ledger row once
\* the upsert of the notification is done.
C36_EmittedMatchesLedger ==
    HandledNotification =>
        /\ Len(emitted) = 1
        /\ \A i \in 2..Len(ledger) :
              ledger[i][1] = emitted[1].user_id
                  => /\ emitted[1].gifted_subs = ledger[i][3]
                     /\ emitted[1].rewards_given = ledger[i][4]

\* the envelope at hand and the signed one it was made from carry the same
\* signature and the verifier accepts both
BothAccepted ==
    /\ sig_prev # NoRequest
    /\ DOMAIN sig_req.headers = DOMAIN sig_prev.headers
    /\ sig_req.headers[HeaderSignature] = sig_prev.headers[HeaderSignature]
    /\ IsValidNotification(secret, sig_prev).ret
    /\ verdict

Triple(request) ==
    <<request.headers[HeaderId], request.headers[HeaderTimestamp], request.data>>

\* C35: for one secret and one signature the verifier accepts at most one
\* (message_id, timestamp, body): two envelopes that differ in a field are
\* never both accepted.
C35_OneTriplePerSignature ==
    BothAccepted => Triple(sig_req) = Triple(sig_prev)

\* C35, amended: two envelopes accepted under one secret with one signature
\* have the same text message_id ++ timestamp ++ body.
C35_OneMessagePerSignature ==
    BothAccepted =>
        Triple(sig_req)[1] \o Triple(sig_req)[2] \o Triple(sig_req)[3]
            = Triple(sig_prev)[1] \o Triple(sig_prev)[2] \o Triple(sig_prev)[3]

\* a re-cut envelope is accepted with the signature of the one it was cut from
C35_Witness ==
    /\ BothAccepted
    /\ sig_case = "resplit"
    /\ Triple(sig_req) # Triple(sig_prev)

\* every full reference row pairs a tenant with a ledger created for that tenant
OwnLedger(ref, files) ==
    \A i \in FullRows(ref) :
        \/ ref[i] = <<"t0", "L0">>
        \/ \E k \in 1..Len(files) : LedgerNames[k] = ref[i][2] /\ files[k] = ref[i][1]

\* C31: when first-time resolutions of different tenants interleave, a
\* reference row that names a tenant keeps naming that tenant, and no row
\* pairs a tenant with a ledger created for another tenant.
C31_InterleavedRowsKeptApart ==
    [][/\ \A i \in 2..Len(reference) :
             Len(reference[i]) >= 1
                 => /\ Len(reference'[i]) >= 1
                    /\ reference'[i][1] = reference[i][1]
       /\ OwnLedger(reference', drive')]_vars

\* C32: when two handshakes interleave on the shared TwitchHandler, each
\* handle_verification(code) returns the token issued for its own code and
\* its subscription request names the broadcaster id of that token's user.
C32_HandshakeKeepsOwnIdentity ==
    \A w \in Workers :
        (hs[w].pc = "done" /\ hs[w].raised = "")
            => /\ hs[w].ret = TokenOf[hs[w].code]
               /\ hs[w].condition = IdOf[LoginOf[TokenOf[hs[w].code]]]

\* requests w and v overlapped (both came in on the same sheet, before either
\* wrote), asked about the same gifter, and have both returned
Overlapped(w, v) ==
    /\ w # v
    /\ th[w].pc = "done" /\ th[v].pc = "done"
    /\ th[w].raised = "" /\ th[v].raised = ""
    /\ th[w].user_id = th[v].user_id
    /\ th[w].base = th[v].base

\* C33: two concurrent (or redelivered) notifications for the same first-seen
\* gifter leave exactly one row for that gifter id.
C33_FirstSeenGifterOneRow ==
    \A w, v \in Workers :
        (/\ Overlapped(w, v)
         /\ th[w].op = "upsert" /\ th[v].op = "upsert"
         /\ GetUserRow(th[w].base, th[w].user_id) = None)
            => Cardinality({i \in 1..Len(ledger) : ledger[i][1] = th[w].user_id}) = 1

\* C34: a reward increment interleaved with a notification upsert for the same
\* gifter loses neither update: afterwards rewards_given is one more than
\* before and gifted_subs is the earlier total plus the notification's count.
C34_RewardAndUpsertBothKept ==
    \A w, v \in Workers :
        (/\ Overlapped(w, v)
         /\ th[w].op = "reward" /\ th[v].op = "upsert"
         /\ GetUserRow(th[w].base, th[w].user_id) # None)
            => LET row == GetUserRow(th[w].base, th[w].user_id)
                   before == th[w].base[row]
               IN /\ ledger[row][4] = before[4] + 1
                  /\ ledger[row][3] = before[3] + th[v].gifted_subs

====
